---- MODULE Spec2Model ----
(***************************************************************************)
(* Mod notes of praw: the query dispatcher ModNotes.__call__ with its two  *)
(* retrieval strategies (_all_generator, _bulk_generator), the writers     *)
(* ModNotes.create / ModNotes.delete / ModNote.delete and the mixin        *)
(* ModNoteMixin.add_note.                                                  *)
(*                                                                         *)
(* Python values are records tagged with their type in field t.  The       *)
(* remote API is the variable server: what the listing and the bulk-lookup *)
(* endpoints answer.  requests is the log of the requests issued since the *)
(* latest call (op) began; gen is the generator that call returned and     *)
(* output what the consumer has pulled out of it so far.                   *)
(***************************************************************************)
EXTENDS Integers, Sequences, FiniteSets, TLC

VARIABLES self_subreddit, server, op, gen, requests, output, error

vars == <<self_subreddit, server, op, gen, requests, output, error>>

(***************************************************************************)
(* Bounds of the model.                                                    *)
(***************************************************************************)
\* longest iterable handed to the dispatcher in Spec
MaxItems == 2
\* most notes a listing returns for one (subreddit, user) pair
MaxNotes == 2
\* SpecBulk feeds the bulk fetcher lists of k * ChunkSize and of
\* k * ChunkSize + 1 pairs for k in 1 .. MaxChunks (and of 0 .. 2 pairs)
MaxChunks == 2

(***************************************************************************)
(* Program constant: islice(subs_iter, 500).                               *)
(***************************************************************************)
ChunkSize == 500

(***************************************************************************)
(* Python values.                                                          *)
(***************************************************************************)
NoneV == [t |-> "None"]
Str(s) == [t |-> "str", v |-> s]
IntV == [t |-> "int"]
SubredditObj(name) == [t |-> "Subreddit", display_name |-> name]
RedditorObj(name) == [t |-> "Redditor", name |-> name]
CommentObj(sub, author, fullname) ==
    [t |-> "Comment", subreddit |-> SubredditObj(sub),
     author |-> RedditorObj(author), fullname |-> fullname]
SubmissionObj(sub, author, fullname) ==
    [t |-> "Submission", subreddit |-> SubredditObj(sub),
     author |-> RedditorObj(author), fullname |-> fullname]
TupleV(a, b) == [t |-> "Tuple", a |-> a, b |-> b]
ModNoteObj(user, subreddit, id) ==
    [t |-> "ModNote", user |-> user, subreddit |-> subreddit, id |-> id]

\* bool(x): None and the empty string are falsy, objects are truthy
Truthy(x) == CASE x.t = "None" -> FALSE
               [] x.t = "str" -> x.v # ""
               [] OTHER -> TRUE

\* a or b
PyOr(a, b) == IF Truthy(a) THEN a ELSE b

\* str(x): a Subreddit prints as its display name, a Redditor as its name,
\* None as "None"
PyStr(x) == CASE x.t = "str" -> x.v
              [] x.t = "None" -> "None"
              [] x.t = "Subreddit" -> x.display_name
              [] x.t = "Redditor" -> x.name
              [] x.t = "int" -> "7"
              [] OTHER -> x.t

\* ",".join(map(str, chunk)): the comma-separated fields, as the sequence
\* of the fields (a name holds no comma)
JoinStr(chunk) == [i \in 1 .. Len(chunk) |-> PyStr(chunk[i])]

\* a variant of Drop that leaves the last element taken in the iterator
Drop_keeps_last(s, n) ==
    SubSeq(s, IF Len(s) < n THEN Len(s) + 1 ELSE n, Len(s))

\* list(islice(it, n)) and what it leaves in the iterator
Take(s, n) == SubSeq(s, 1, IF Len(s) < n THEN Len(s) ELSE n)
Drop(s, n) == SubSeq(s, (IF Len(s) < n THEN Len(s) ELSE n) + 1, Len(s))

(***************************************************************************)
(* The world the calls are made in.                                        *)
(***************************************************************************)
UserNames == {"ua", "ub"}

\* self.subreddit: None on reddit.mod_notes, the subreddit on
\* subreddit.mod.notes
BoundSubreddits == {NoneV, SubredditObj("sa")}

\* the subreddit keyword of a query or of create
SubredditArgs == {NoneV, Str("sb"), SubredditObj("sb")}

Comment1 == CommentObj("sc", "ua", "t1_c1")
Submission1 == SubmissionObj("sd", "ub", "t3_s1")

(***************************************************************************)
(* The remote API.  server.cnt is the number of notes the listing endpoint *)
(* holds for user "ua" (one more, modulo MaxNotes + 1, for any other       *)
(* user); server.bulk is how the bulk-lookup endpoint answers a chunk:     *)
(* one note per pair ("full"), a note or None per pair ("holes"), or an    *)
(* empty list ("empty").                                                   *)
(***************************************************************************)
BulkModes == {"full", "holes", "empty"}

Servers == [cnt : 0 .. MaxNotes, bulk : BulkModes]

ListingCount(srv, user) ==
    IF PyStr(user) = "ua" THEN srv.cnt ELSE (srv.cnt + 1) % (MaxNotes + 1)

NoteId(i) == Str("n" \o ToString(i))

\* what iterating ListingGenerator(API_PATH["mod_notes"], params) yields
ListingNotes(srv, params) ==
    [i \in 1 .. ListingCount(srv, params.user) |->
        ModNoteObj(RedditorObj(PyStr(params.user)),
                   SubredditObj(PyStr(params.subreddit)), NoteId(i))]

\* response["mod_notes"] of one bulk-lookup request, objectified
BulkResponse(srv, req) ==
    CASE srv.bulk = "empty" -> << >>
      [] srv.bulk = "full" ->
            [i \in 1 .. Len(req.users) |->
                ModNoteObj(RedditorObj(req.users[i]),
                           SubredditObj(req.subreddits[i]), Str("latest"))]
      [] OTHER ->
            [i \in 1 .. Len(req.users) |->
                IF i % 2 = 0 THEN NoneV
                ELSE ModNoteObj(RedditorObj(req.users[i]),
                                SubredditObj(req.subreddits[i]), Str("latest"))]

(***************************************************************************)
(* Requests.                                                               *)
(***************************************************************************)
ListingRequest(params) ==
    [kind |-> "listing", subreddit |-> params.subreddit, user |-> params.user]

BulkRequest(subreddits_chunk, users_chunk) ==
    [kind |-> "bulk", subreddits |-> JoinStr(subreddits_chunk),
     users |-> JoinStr(users_chunk)]

DeleteRequest(user, subreddit, note_id) ==
    [kind |-> "delete", user |-> PyStr(user), subreddit |-> PyStr(subreddit),
     note_id |-> note_id]

(***************************************************************************)
(* Generators.  pc is "unstarted" while the body of the Iterable handler   *)
(* has not been entered, "ready" while the generator is suspended, "done"  *)
(* once it is exhausted or has raised, "closed" once the consumer has      *)
(* dropped it.  buf holds what the page or response in hand has left to    *)
(* yield.                                                                  *)
(***************************************************************************)
NoGen ==
    [pc |-> "none", kind |-> "none", call |-> NoneV, params |-> << >>,
     pending |-> << >>, subs |-> << >>, users |-> << >>, buf |-> << >>]

\* _all_generator: the parameters of the ListingGenerator it returns
all_generator(self_sub, redditor, subreddit) ==
    [subreddit |-> PyOr(subreddit, self_sub), user |-> redditor]

\* the ListingGenerator, not yet iterated
GenListing(params) ==
    [NoGen EXCEPT !.pc = "ready", !.kind = "listing", !.params = <<params>>]

\* _bulk_generator(subreddits, users), not yet iterated
GenBulk(subreddits, users) ==
    [NoGen EXCEPT !.pc = "ready", !.kind = "bulk", !.subs = subreddits,
                  !.users = users]

\* the Iterable handler's generator, not yet iterated
GenIterable(items, all_notes, subreddit) ==
    [NoGen EXCEPT !.pc = "unstarted", !.kind = "iterable",
                  !.call = [items |-> items, all_notes |-> all_notes,
                            subreddit |-> subreddit]]

Yielded(g, reqs) ==
    [gen |-> [g EXCEPT !.buf = Tail(g.buf)], requests |-> reqs,
     yield |-> <<Head(g.buf)>>, error |-> "none"]

Exhausted(g, reqs) ==
    [gen |-> [g EXCEPT !.pc = "done"], requests |-> reqs, yield |-> << >>,
     error |-> "none"]

Raised(g, reqs, err) ==
    [gen |-> [g EXCEPT !.pc = "done"], requests |-> reqs, yield |-> << >>,
     error |-> err]

\* next() on a ListingGenerator: the first call fetches
RECURSIVE RunListing(_, _, _)
RunListing(srv, g, reqs) ==
    IF g.buf # << >> THEN Yielded(g, reqs)
    ELSE IF g.params = << >> THEN Exhausted(g, reqs)
    ELSE RunListing(srv,
                    [g EXCEPT !.params = << >>,
                              !.buf = ListingNotes(srv, g.params[1])],
                    Append(reqs, ListingRequest(g.params[1])))

\* next() on the Iterable handler with all_notes: yield from one
\* _all_generator per (redditor, subreddit) of zip(users, subreddits)
RECURSIVE RunAll(_, _, _, _)
RunAll(srv, self_sub, g, reqs) ==
    IF g.buf # << >> THEN Yielded(g, reqs)
    ELSE IF g.pending = << >> THEN Exhausted(g, reqs)
    ELSE LET p == all_generator(self_sub, g.pending[1].redditor,
                                g.pending[1].subreddit)
         IN  RunAll(srv, self_sub,
                    [g EXCEPT !.pending = Tail(g.pending),
                              !.buf = ListingNotes(srv, p)],
                    Append(reqs, ListingRequest(p)))

\* a variant of _bulk_generator that requests every chunk before it yields
\* the first result
RECURSIVE bulk_generator_eager(_, _, _)
bulk_generator_eager(srv, g, reqs) ==
    LET subreddits_chunk == Take(g.subs, ChunkSize)
        users_chunk == Take(g.users, ChunkSize)
        req == BulkRequest(subreddits_chunk, users_chunk)
    IN  IF subreddits_chunk = << >> /\ users_chunk = << >>
        THEN (IF g.buf # << >> THEN Yielded(g, reqs) ELSE Exhausted(g, reqs))
        ELSE bulk_generator_eager(srv,
                 [g EXCEPT !.subs = Drop(g.subs, ChunkSize),
                           !.users = Drop(g.users, ChunkSize),
                           !.buf = g.buf \o BulkResponse(srv, req)],
                 Append(reqs, req))

\* next() on _bulk_generator
RECURSIVE bulk_generator(_, _, _)
bulk_generator(srv, g, reqs) ==
    IF g.buf # << >> THEN Yielded(g, reqs)
    ELSE LET subreddits_chunk == Take(g.subs, ChunkSize)
             users_chunk == Take(g.users, ChunkSize)
         IN  IF subreddits_chunk = << >> /\ users_chunk = << >>
             THEN Exhausted(g, reqs)
             ELSE LET req == BulkRequest(subreddits_chunk, users_chunk)
                  IN  bulk_generator(srv,
                          [g EXCEPT !.subs = Drop(g.subs, ChunkSize),
                                    !.users = Drop(g.users, ChunkSize),
                                    !.buf = BulkResponse(srv, req)],
                          Append(reqs, req))

(***************************************************************************)
(* ModNotes.__call__: the handlers singledispatchmethod registers.         *)
(***************************************************************************)
\* the all_notes keyword: "default" when the caller leaves it out
AllNotesArgs == {"default", "true", "false"}

AllNotes(arg, default) == IF arg = "default" THEN default ELSE arg = "true"

\* a variant of ResolveOne that stops at the first element it cannot
\* resolve, keeping the pairs before it, instead of raising
ResolveItems_partial(items, subreddit, self_sub) ==
    LET ok(x) == \/ x.t \in {"Comment", "Submission", "Tuple"}
                 \/ x.t = "str" /\ PyOr(subreddit, self_sub).t # "None"
        bad == {i \in 1 .. Len(items) : ~ok(items[i])}
        n == IF bad = {} THEN Len(items)
             ELSE (CHOOSE i \in bad : \A j \in bad : i <= j) - 1
        pair(i) == IF items[i].t = "str"
                   THEN [subreddit |-> PyOr(subreddit, self_sub),
                         user |-> items[i]]
                   ELSE IF items[i].t = "Tuple"
                   THEN [subreddit |-> items[i].a, user |-> items[i].b]
                   ELSE [subreddit |-> items[i].subreddit,
                         user |-> items[i].author]
    IN  [error |-> "none",
         subreddits |-> [i \in 1 .. n |-> pair(i).subreddit],
         users |-> [i \in 1 .. n |-> pair(i).user]]

\* one turn of the loop over items (lines 189 - 212): what it appends, or
\* the error it raises
ResolveOne(subreddit_user, subreddit, self_sub) ==
    CASE subreddit_user.t \in {"Comment", "Submission"} ->
            [error |-> "none",
             subreddit |-> Str(subreddit_user.subreddit.display_name),
             user |-> Str(subreddit_user.author.name)]
      [] subreddit_user.t = "Tuple" ->
            [error |-> "none",
             subreddit |-> IF subreddit_user.a.t = "Subreddit"
                           THEN Str(subreddit_user.a.display_name)
                           ELSE subreddit_user.a,
             user |-> IF subreddit_user.b.t = "Redditor"
                      THEN Str(subreddit_user.b.name)
                      ELSE subreddit_user.b]
      [] subreddit_user.t = "str" ->
            IF PyOr(subreddit, self_sub).t = "None"
            THEN [error |-> "configuration", subreddit |-> NoneV,
                  user |-> NoneV]
            ELSE [error |-> "none", subreddit |-> PyOr(subreddit, self_sub),
                  user |-> subreddit_user]
      [] OTHER ->
            [error |-> "unsupported", subreddit |-> NoneV, user |-> NoneV]

\* the whole loop: the first element that raises ends it
ResolveItems(items, subreddit, self_sub) ==
    LET one(i) == ResolveOne(items[i], subreddit, self_sub)
        bad == {i \in 1 .. Len(items) : one(i).error # "none"}
    IN  IF bad # {}
        THEN [error |-> one(CHOOSE i \in bad : \A j \in bad : i <= j).error,
              subreddits |-> << >>, users |-> << >>]
        ELSE [error |-> "none",
              subreddits |-> [i \in 1 .. Len(items) |-> one(i).subreddit],
              users |-> [i \in 1 .. Len(items) |-> one(i).user]]

\* the handler registered for str and Redditor (lines 96 - 105)
QueryUser(self_sub, redditor, all_notes, subreddit) ==
    IF ~Truthy(subreddit) /\ ~Truthy(self_sub)
    THEN [gen |-> NoGen, error |-> "configuration"]
    ELSE IF AllNotes(all_notes, TRUE)
    THEN [gen |-> GenListing(all_generator(self_sub, redditor,
                                           PyOr(subreddit, self_sub))),
          error |-> "none"]
    ELSE [gen |-> GenBulk(<<PyOr(subreddit, self_sub)>>, <<redditor>>),
          error |-> "none"]

\* a variant of QueryItem that looks the author up in the bound subreddit
QueryItem_bound(self_sub, item, all_notes) ==
    IF AllNotes(all_notes, TRUE)
    THEN [gen |-> GenListing(all_generator(self_sub, item.author, self_sub)),
          error |-> "none"]
    ELSE [gen |-> GenBulk(<<self_sub>>, <<item.author>>), error |-> "none"]

\* the handler registered for Comment and Submission (lines 124 - 127)
QueryItem(self_sub, item, all_notes) ==
    IF AllNotes(all_notes, TRUE)
    THEN [gen |-> GenListing(all_generator(self_sub, item.author,
                                           item.subreddit)),
          error |-> "none"]
    ELSE [gen |-> GenBulk(<<item.subreddit>>, <<item.author>>),
          error |-> "none"]

\* the handler registered for Iterable: a generator function, so the call
\* runs none of its body
QueryIterable(items, all_notes, subreddit) ==
    [gen |-> GenIterable(items, all_notes, subreddit), error |-> "none"]

\* the fallback handler (line 75)
QueryUnsupported == [gen |-> NoGen, error |-> "unsupported"]

\* singledispatchmethod on the type of the first argument; an iterable is
\* the record [t |-> "list", elems |-> the elements]
Dispatch(self_sub, items, all_notes, subreddit) ==
    CASE items.t \in {"str", "Redditor"} ->
            QueryUser(self_sub, items, all_notes, subreddit)
      [] items.t \in {"Comment", "Submission"} ->
            QueryItem(self_sub, items, all_notes)
      [] items.t = "list" -> QueryIterable(items.elems, all_notes, subreddit)
      [] OTHER -> QueryUnsupported

\* first next() on the Iterable handler's generator (lines 187 - 218)
StartIterable(srv, self_sub, g, reqs) ==
    LET res == ResolveItems(g.call.items, g.call.subreddit, self_sub)
        n == IF Len(res.users) < Len(res.subreddits)
             THEN Len(res.users) ELSE Len(res.subreddits)
    IN  IF res.error # "none"
        THEN Raised([g EXCEPT !.call = NoneV], reqs, res.error)
        ELSE IF AllNotes(g.call.all_notes, FALSE)
        THEN RunAll(srv, self_sub,
                    [g EXCEPT !.pc = "ready", !.kind = "all", !.call = NoneV,
                              !.pending =
                                  [i \in 1 .. n |->
                                      [redditor |-> res.users[i],
                                       subreddit |-> res.subreddits[i]]]],
                    reqs)
        ELSE bulk_generator(srv,
                            [g EXCEPT !.pc = "ready", !.kind = "bulk",
                                      !.call = NoneV,
                                      !.subs = res.subreddits,
                                      !.users = res.users],
                            reqs)

\* next() on the generator a query returned
Step(srv, self_sub, g, reqs) ==
    CASE g.kind = "listing" -> RunListing(srv, g, reqs)
      [] g.kind = "all" -> RunAll(srv, self_sub, g, reqs)
      [] g.kind = "bulk" -> bulk_generator(srv, g, reqs)
      [] OTHER -> StartIterable(srv, self_sub, g, reqs)

(***************************************************************************)
(* Inputs.                                                                 *)
(***************************************************************************)
UserArgs == {Str("ua"), RedditorObj("ub")}

ItemArgs == {Comment1, Submission1}

\* what an iterable may hold; an int stands for the unsupported types
Elements ==
    {Comment1, Submission1, TupleV(Str("se"), Str("ua")),
     TupleV(SubredditObj("sf"), RedditorObj("ub")), Str("ua"),
     RedditorObj("ub"), IntV}

SeqsUpTo(S, n) == UNION {[1 .. k -> S] : k \in 0 .. n}

ItemLists == SeqsUpTo(Elements, MaxItems)

(***************************************************************************)
(* The state after construction, and the calls.                            *)
(***************************************************************************)
Init ==
    /\ self_subreddit \in BoundSubreddits
    /\ server \in Servers
    /\ op = [name |-> "none"]
    /\ gen = NoGen
    /\ requests = << >>
    /\ output = << >>
    /\ error = "none"

Idle == op.name = "none"

\* a call is made on the idle dispatcher: the log and the generator are
\* those of the latest call
Returned(call, r) ==
    /\ Idle
    /\ op' = call
    /\ gen' = r.gen
    /\ error' = r.error
    /\ requests' = << >>
    /\ output' = << >>
    /\ UNCHANGED <<self_subreddit, server>>

\* notes(redditor, all_notes=..., subreddit=...)
CallUser(redditor, all_notes, subreddit) ==
    Returned([name |-> "query", shape |-> "user", items |-> redditor,
              all_notes |-> all_notes, subreddit |-> subreddit],
             Dispatch(self_subreddit, redditor, all_notes, subreddit))

\* notes(comment_or_submission, all_notes=...)
CallItem(item, all_notes) ==
    Returned([name |-> "query", shape |-> "item", items |-> item,
              all_notes |-> all_notes, subreddit |-> NoneV],
             Dispatch(self_subreddit, item, all_notes, NoneV))

\* notes(iterable, all_notes=..., subreddit=...)
CallIterable(items, all_notes, subreddit) ==
    Returned([name |-> "query", shape |-> "iterable", items |-> items,
              all_notes |-> all_notes, subreddit |-> subreddit],
             Dispatch(self_subreddit, [t |-> "list", elems |-> items],
                      all_notes, subreddit))

\* notes(x) for an x of no registered type
CallUnsupported(items) ==
    Returned([name |-> "query", shape |-> "other", items |-> items,
              all_notes |-> "default", subreddit |-> NoneV],
             Dispatch(self_subreddit, items, "default", NoneV))

\* the consumer calls next() on the generator
Advance ==
    /\ gen.pc \in {"unstarted", "ready"}
    /\ LET r == Step(server, self_subreddit, gen, requests)
       IN  /\ gen' = r.gen
           /\ requests' = r.requests
           /\ output' = output \o r.yield
           /\ error' = r.error
    /\ UNCHANGED <<self_subreddit, server, op>>

\* the consumer drops the generator before it is exhausted
Close ==
    /\ gen.pc \in {"unstarted", "ready"}
    /\ gen' = [gen EXCEPT !.pc = "closed"]
    /\ UNCHANGED <<self_subreddit, server, op, requests, output, error>>

(***************************************************************************)
(* The writers.                                                            *)
(***************************************************************************)
\* a dict with no key
EmptyDict == [k \in {} |-> ""]

\* whether x.subreddit, x.author and x.fullname exist: a str has none
HasThingAttrs(x) == x.t \in {"Comment", "Submission"}

Failed(err) == [error |-> err, requests |-> << >>]

\* ModNotes.create (lines 261 - 283); dict values are shown by their str()
create(self_sub, label, note, redditor, subreddit, thing, other_settings) ==
    LET sub_error ==
            IF Truthy(subreddit) THEN "none"
            ELSE IF Truthy(thing)
            THEN (IF HasThingAttrs(thing) THEN "none" ELSE "AttributeError")
            ELSE IF Truthy(self_sub) THEN "none"
            ELSE "configuration"
        subreddit2 ==
            IF Truthy(subreddit) THEN subreddit
            ELSE IF Truthy(thing) THEN thing.subreddit
            ELSE self_sub
        red_error ==
            IF Truthy(redditor) THEN "none"
            ELSE IF Truthy(thing)
            THEN (IF HasThingAttrs(thing) THEN "none" ELSE "AttributeError")
            ELSE "configuration"
        redditor2 == IF Truthy(redditor) THEN redditor ELSE thing.author
        data1 == [user |-> PyStr(redditor2), subreddit |-> PyStr(subreddit2),
                  note |-> PyStr(note)]
        data2 == IF Truthy(label) THEN data1 @@ [label |-> PyStr(label)]
                 ELSE data1
        data3 == IF Truthy(thing) THEN data2 @@ [thing |-> thing.fullname]
                 ELSE data2
    IN  IF sub_error # "none" THEN Failed(sub_error)
        ELSE IF red_error # "none" THEN Failed(red_error)
        ELSE IF Truthy(thing) /\ ~HasThingAttrs(thing)
        THEN Failed("AttributeError")
        ELSE [error |-> "none",
              requests |-> <<[kind |-> "create",
                              data |-> other_settings @@ data3]>>]

\* ModNoteMixin.add_note (lines 38 - 43), on the notes of the item's
\* subreddit
add_note(item, note, label) ==
    create(item.subreddit, label, note, item.author, NoneV, NoneV,
           [fullname |-> item.fullname])

\* ModNote.delete (lines 71 - 76)
ModNote_delete(note) == DeleteRequest(note.user, note.subreddit, note.id)

\* for note in self(redditor): note.delete()
RECURSIVE DeleteEach(_, _, _, _)
DeleteEach(srv, self_sub, g, reqs) ==
    LET r == Step(srv, self_sub, g, reqs)
    IN  IF r.yield = << >> THEN [error |-> r.error, requests |-> r.requests]
        ELSE DeleteEach(srv, self_sub, r.gen,
                        Append(r.requests, ModNote_delete(r.yield[1])))

\* ModNotes.delete (lines 320 - 332): no branch of the if returns, so the
\* request of lines 327 - 332 follows the loop over the notes too
delete(srv, self_sub, delete_all, note_id, redditor) ==
    LET q == Dispatch(self_sub, redditor, "default", NoneV)
        looped == IF ~delete_all THEN [error |-> "none", requests |-> << >>]
                  ELSE IF q.error # "none" THEN Failed(q.error)
                  ELSE DeleteEach(srv, self_sub, q.gen, << >>)
        nones == (IF redditor.t = "None" THEN 1 ELSE 0) +
                 (IF note_id.t = "None" THEN 1 ELSE 0)
    IN  IF looped.error # "none" THEN looped
        ELSE IF ~delete_all /\ nones = 1 THEN Failed("argument")
        ELSE [error |-> "none",
              requests |-> Append(looped.requests,
                                  DeleteRequest(redditor, self_sub, note_id))]

Finished(call, r) ==
    /\ op' = call
    /\ gen' = NoGen
    /\ error' = r.error
    /\ requests' = r.requests
    /\ output' = << >>
    /\ UNCHANGED <<self_subreddit, server>>

LabelArgs == {NoneV, Str("BAN")}

RedditorArgs == {NoneV, Str("ua"), RedditorObj("ub")}

ThingArgs == {NoneV, Str("t3_s1"), Comment1, Submission1}

NoteIdArgs == {NoneV, Str("n1")}

\* notes.create(label=..., note=..., redditor=..., subreddit=..., thing=...)
Create(label, redditor, subreddit, thing) ==
    /\ Idle
    /\ Finished([name |-> "create", label |-> label, redditor |-> redditor,
                 subreddit |-> subreddit, thing |-> thing],
                create(self_subreddit, label, Str("text"), redditor,
                       subreddit, thing, EmptyDict))

\* notes.delete(delete_all=..., note_id=..., redditor=...)
Delete(delete_all, note_id, redditor) ==
    /\ Idle
    /\ Finished([name |-> "delete", delete_all |-> delete_all,
                 note_id |-> note_id, redditor |-> redditor],
                delete(server, self_subreddit, delete_all, note_id, redditor))

\* item.mod.add_note(note, label=...)
AddNote(item, label) ==
    /\ Idle
    /\ Finished([name |-> "add_note", item |-> item, label |-> label],
                add_note(item, Str("text"), label))

\* note.delete() on a note a query has yielded
NoteDelete(i) ==
    /\ op.name = "query"
    /\ gen.pc \in {"done", "closed"}
    /\ output[i].t = "ModNote"
    /\ Finished([name |-> "note_delete", note |-> output[i]],
                [error |-> "none", requests |-> <<ModNote_delete(output[i])>>])

\* the caller is through with the call: back to the idle dispatcher
Forget ==
    /\ op.name # "none"
    /\ gen.pc \notin {"unstarted", "ready"}
    /\ op' = [name |-> "none"]
    /\ gen' = NoGen
    /\ requests' = << >>
    /\ output' = << >>
    /\ error' = "none"
    /\ UNCHANGED <<self_subreddit, server>>

Next ==
    \/ Idle /\ \E r \in UserArgs, a \in AllNotesArgs, s \in SubredditArgs :
                  CallUser(r, a, s)
    \/ Idle /\ \E i \in ItemArgs, a \in AllNotesArgs : CallItem(i, a)
    \/ Idle /\ \E l \in ItemLists, a \in AllNotesArgs, s \in SubredditArgs :
                  CallIterable(l, a, s)
    \/ Idle /\ \E x \in {NoneV, IntV} : CallUnsupported(x)
    \/ Idle /\ \E l \in LabelArgs, r \in RedditorArgs, s \in SubredditArgs,
                  t \in ThingArgs : Create(l, r, s, t)
    \/ Idle /\ \E d \in BOOLEAN, n \in NoteIdArgs, r \in RedditorArgs :
                  Delete(d, n, r)
    \/ Idle /\ \E i \in ItemArgs, l \in LabelArgs : AddNote(i, l)
    \/ \E i \in 1 .. Len(output) : NoteDelete(i)
    \/ Advance
    \/ Close
    \/ Forget

Spec == Init /\ [][Next]_vars

(***************************************************************************)
(* The bulk fetcher on long lists: SpecBulk makes the latest-note queries  *)
(* only, on subreddit.mod.notes, on iterables of 0 .. 2 pairs and of       *)
(* exactly and one pair more than k chunks.                                *)
(***************************************************************************)
SubName(i) == "s" \o ToString(i)

UserName(i) == "u" \o ToString(i)

\* n (subreddit, user) tuples, all different: names at the odd places,
\* Subreddit and Redditor objects at the even ones
BigItems(n) ==
    [i \in 1 .. n |->
        IF i % 2 = 1 THEN TupleV(Str(SubName(i)), Str(UserName(i)))
        ELSE TupleV(SubredditObj(SubName(i)), RedditorObj(UserName(i)))]

BulkLengths ==
    (0 .. 2) \cup {k * ChunkSize + d : k \in 1 .. MaxChunks, d \in {0, 1}}

InitBulk ==
    /\ self_subreddit = SubredditObj("sa")
    /\ server \in [cnt : {0}, bulk : BulkModes]
    /\ op = [name |-> "none"]
    /\ gen = NoGen
    /\ requests = << >>
    /\ output = << >>
    /\ error = "none"

NextBulk ==
    \/ Idle /\ \E n \in BulkLengths : CallIterable(BigItems(n), "default", NoneV)
    \/ Idle /\ \E r \in UserArgs, s \in SubredditArgs : CallUser(r, "false", s)
    \/ Idle /\ \E i \in ItemArgs : CallItem(i, "false")
    \/ Advance
    \/ Close
    \/ Forget

SpecBulk == InitBulk /\ [][NextBulk]_vars

(***************************************************************************)
(* Properties.                                                             *)
(***************************************************************************)
\* the pair an element of a query stands for, by its names: of a post or
\* comment (its subreddit, its author), of a tuple the tuple's own, of a
\* username or Redditor (the subreddit keyword, else the bound subreddit;
\* the user)
PairOf(x, subreddit) ==
    CASE x.t \in {"Comment", "Submission"} ->
            [subreddit |-> x.subreddit.display_name, user |-> x.author.name]
      [] x.t = "Tuple" -> [subreddit |-> PyStr(x.a), user |-> PyStr(x.b)]
      [] OTHER ->
            [subreddit |-> IF subreddit.t # "None" THEN PyStr(subreddit)
                           ELSE PyStr(self_subreddit),
             user |-> PyStr(x)]

\* the pairs of the latest query, in input order: how many, and the i-th
NPairs == IF op.shape = "iterable" THEN Len(op.items) ELSE 1

PairAt(i) ==
    IF op.shape = "iterable" THEN PairOf(op.items[i], op.subreddit)
    ELSE PairOf(op.items, op.subreddit)

\* whether the latest query asked for all notes
WantsAll ==
    IF op.all_notes = "default" THEN op.shape # "iterable"
    ELSE op.all_notes = "true"

Consumed == op.name = "query" /\ gen.pc = "done" /\ error = "none"

RECURSIVE ConcatResponses(_)
ConcatResponses(reqs) ==
    IF reqs = << >> THEN << >>
    ELSE ConcatResponses(SubSeq(reqs, 1, Len(reqs) - 1))
             \o BulkResponse(server, reqs[Len(reqs)])

\* request k of a bulk fetch carries the pairs 500 (k - 1) + 1 ..
\* min(500 k, NPairs), and nothing else
CarriesChunk(req, k) ==
    LET lo == 500 * (k - 1)
        n == IF NPairs - lo < 500 THEN NPairs - lo ELSE 500
    IN  /\ req.kind = "bulk"
        /\ req.subreddits = [j \in 1 .. n |-> PairAt(lo + j).subreddit]
        /\ req.users = [j \in 1 .. n |-> PairAt(lo + j).user]

\* C1: once the sequence of a bulk fetch over N pairs is consumed,
\* ceil(N / 500) requests have been issued (none for N = 0, and then nothing
\* was yielded), request k carries the pairs 500 (k - 1) + 1 .. min(500 k, N)
\* with subreddits and users aligned and in input order, and the output is
\* the responses' notes concatenated in request order.
C1_BulkChunks ==
    (Consumed /\ ~WantsAll) =>
        /\ Len(requests) = (NPairs + 499) \div 500
        /\ \A k \in 1 .. Len(requests) : CarriesChunk(requests[k], k)
        /\ output = ConcatResponses(requests)
        /\ (NPairs = 0 => output = << >>)

\* a fetch of more than two chunks' worth of pairs has been consumed, the
\* server answering every pair
C1_Witness ==
    /\ Consumed /\ ~WantsAll
    /\ NPairs = 1001
    /\ Len(requests) = 3
    /\ Len(output) = 1001

\* what the listing fetches of a consumed all-notes query yielded, in order
RECURSIVE ConcatListings(_)
ConcatListings(reqs) ==
    IF reqs = << >> THEN << >>
    ELSE ConcatListings(SubSeq(reqs, 1, Len(reqs) - 1))
             \o ListingNotes(server, reqs[Len(reqs)])

\* the requests of a consumed all-notes query: one listing fetch per pair,
\* in input order, and the fetched sequences concatenated
ListingPerPair ==
    /\ Len(requests) = NPairs
    /\ \A i \in 1 .. NPairs :
          /\ requests[i].kind = "listing"
          /\ PyStr(requests[i].subreddit) = PairAt(i).subreddit
          /\ PyStr(requests[i].user) = PairAt(i).user
    /\ output = ConcatListings(requests)

\* C2 as stated: a consumed query with all_notes true (the default for a
\* single user, post or comment) has issued one listing fetch per pair and
\* nothing else; one with all_notes false (the default for an iterable) has
\* issued bulk requests only, exactly one for at most 500 pairs.
C2_Original ==
    Consumed =>
        IF WantsAll THEN ListingPerPair
        ELSE /\ \A k \in 1 .. Len(requests) : requests[k].kind = "bulk"
             /\ NPairs <= 500 =>
                    /\ Len(requests) = 1
                    /\ CarriesChunk(requests[1], 1)

\* C2 as amended: as C2_Original, but the bulk path issues exactly one
\* request for 1 to 500 pairs and none for an empty iterable.
C2_Dispatch ==
    Consumed =>
        IF WantsAll THEN ListingPerPair
        ELSE /\ \A k \in 1 .. Len(requests) : requests[k].kind = "bulk"
             /\ (NPairs >= 1 /\ NPairs <= 500) =>
                    /\ Len(requests) = 1
                    /\ CarriesChunk(requests[1], 1)
             /\ NPairs = 0 => requests = << >>

\* an iterable of a tuple and a comment, all_notes left out, consumed: one
\* bulk request and two results
C2_Witness ==
    /\ Consumed
    /\ op.shape = "iterable"
    /\ op.all_notes = "default"
    /\ NPairs = 2
    /\ op.items[1].t = "Tuple"
    /\ op.items[2].t = "Comment"
    /\ Len(requests) = 1
    /\ Len(output) = 2

\* how the resolution of one element is to fail: a username with no
\* subreddit keyword and no bound subreddit, an element of a type the
\* dispatcher does not know
FailureOf(x) ==
    CASE x.t \in {"str", "Redditor"} ->
            IF op.subreddit.t = "None" /\ self_subreddit.t = "None"
            THEN "configuration" ELSE "none"
      [] x.t \in {"Comment", "Submission", "Tuple"} -> "none"
      [] OTHER -> "unsupported"

\* the body of the handler has run: an Iterable handler resolves at the
\* first next()
Resolved == ~(gen.kind = "iterable" /\ gen.pc \in {"unstarted", "closed"})

\* C3: a query whose pair resolution fails issues no request and yields
\* nothing, whatever all_notes is: a username or Redditor given alone with
\* no subreddit to go with it fails with a configuration error; an iterable
\* fails, once its generator is started, with the error of its first failing
\* element (configuration for a username with no subreddit, unsupported for
\* an element of unknown type), also when the elements before it resolved.
C3_FailsClosed ==
    op.name = "query" =>
        /\ error # "none" => (requests = << >> /\ output = << >>)
        /\ op.shape = "user" =>
               (error = FailureOf(op.items)
                /\ (error # "none" => gen.pc = "none"))
        /\ op.shape = "other" => error = "unsupported"
        /\ (op.shape = "iterable" /\ Resolved) =>
               LET bad == {i \in 1 .. Len(op.items) :
                              FailureOf(op.items[i]) # "none"}
                   first == CHOOSE i \in bad : \A j \in bad : i <= j
               IN  /\ bad # {} => error \in {"configuration", "unsupported"}
                   /\ (bad # {}
                       /\ \A i \in 1 .. Len(op.items) :
                             op.items[i].t # "Redditor")
                          => error = FailureOf(op.items[first])

\* an all-notes query over a tuple followed by an element of unknown type
\* has been started: it raised, and nothing was requested for the tuple
C3_Witness ==
    /\ op.name = "query"
    /\ op.shape = "iterable"
    /\ op.all_notes = "true"
    /\ Len(op.items) = 2
    /\ op.items[1].t = "Tuple"
    /\ op.items[2].t = "int"
    /\ gen.pc = "done"
    /\ error = "unsupported"
    /\ requests = << >>

DeleteRequests == SelectSeq(requests, LAMBDA r : r.kind = "delete")

\* C4: delete(redditor=r, delete_all=True) that raises nothing has issued
\* exactly one delete request per note the listing for r holds, each keyed by
\* that note's own (user, subreddit, id), and no other delete request.
C4_DeleteAll ==
    (op.name = "delete" /\ op.delete_all /\ error = "none") =>
        /\ Len(DeleteRequests) = ListingCount(server, op.redditor)
        /\ \A i \in 1 .. Len(DeleteRequests) :
              DeleteRequests[i] =
                  [kind |-> "delete", user |-> PyStr(op.redditor),
                   subreddit |-> PyStr(self_subreddit), note_id |-> NoteId(i)]

\* C5: delete without delete_all issues exactly one delete request, keyed by
\* (redditor, bound subreddit, note_id), when redditor and note_id are both
\* given; when either or both are absent it raises an argument error and
\* issues no request.
C5_DeleteArgs ==
    (op.name = "delete" /\ ~op.delete_all) =>
        IF op.redditor.t # "None" /\ op.note_id.t # "None"
        THEN /\ error = "none"
             /\ requests = <<[kind |-> "delete", user |-> PyStr(op.redditor),
                              subreddit |-> PyStr(self_subreddit),
                              note_id |-> op.note_id]>>
        ELSE error = "argument" /\ requests = << >>

\* the fullname of the thing given to create: the string itself, or the
\* comment's or submission's
FullnameOf(thing) == IF thing.t = "str" THEN thing.v ELSE thing.fullname

\* C6: create resolves the subreddit as the keyword, else the thing's
\* subreddit, else the bound subreddit, and the redditor as the keyword, else
\* the thing's author; with either unresolved it raises a configuration error
\* and issues no request; otherwise it issues exactly one creation request
\* with the resolved user and subreddit, the note, the label when given and,
\* when a thing is given (a fullname, a comment or a submission), its
\* fullname.
C6_Create ==
    op.name = "create" =>
        LET ofThing == op.thing.t \in {"Comment", "Submission"}
            sub == IF op.subreddit.t # "None" THEN op.subreddit
                   ELSE IF ofThing THEN op.thing.subreddit
                   ELSE self_subreddit
            red == IF op.redditor.t # "None" THEN op.redditor
                   ELSE IF ofThing THEN op.thing.author
                   ELSE NoneV
            want == [user |-> PyStr(red), subreddit |-> PyStr(sub),
                     note |-> "text"]
                    @@ (IF op.label.t # "None"
                        THEN [label |-> PyStr(op.label)] ELSE EmptyDict)
                    @@ (IF op.thing.t # "None"
                        THEN [thing |-> FullnameOf(op.thing)] ELSE EmptyDict)
        IN  IF sub.t = "None" \/ red.t = "None"
            THEN error = "configuration" /\ requests = << >>
            ELSE /\ error = "none"
                 /\ Len(requests) = 1
                 /\ requests[1].kind = "create"
                 /\ requests[1].data = want

\* C7: an iterable whose elements are tuples, comments, submissions,
\* usernames and Redditor objects, with a subreddit for the usernames and
\* Redditors to go with, raises nothing when its generator is started, and
\* once consumed has issued the requests of its pairs, a Redditor standing
\* for (subreddit keyword, else bound subreddit; the redditor).
C7_RedditorElement ==
    (/\ op.name = "query"
     /\ op.shape = "iterable"
     /\ Resolved
     /\ \E i \in 1 .. Len(op.items) : op.items[i].t = "Redditor"
     /\ \A i \in 1 .. Len(op.items) : FailureOf(op.items[i]) = "none") =>
        /\ error = "none"
        /\ Consumed =>
               IF WantsAll THEN ListingPerPair
               ELSE /\ Len(requests) = 1
                    /\ CarriesChunk(requests[1], 1)

\* C9: add_note on a post or comment issues exactly one creation request
\* whose user is the item's author, whose subreddit is the item's subreddit
\* and whose thing field is the item's fullname.
C9_AddNote ==
    op.name = "add_note" =>
        /\ error = "none"
        /\ Len(requests) = 1
        /\ requests[1].kind = "create"
        /\ requests[1].data.user = op.item.author.name
        /\ requests[1].data.subreddit = op.item.subreddit.display_name
        /\ "thing" \in DOMAIN requests[1].data
        /\ requests[1].data.thing = op.item.fullname

\* C10: every request issued carries a subreddit and a user that were
\* resolved, never an absent (None) one.
C10_NoAbsentContext ==
    \A k \in 1 .. Len(requests) :
        LET r == requests[k]
        IN  CASE r.kind = "listing" ->
                    r.subreddit.t # "None" /\ r.user.t # "None"
              [] r.kind = "bulk" ->
                    /\ \A i \in 1 .. Len(r.subreddits) : r.subreddits[i] # "None"
                    /\ \A i \in 1 .. Len(r.users) : r.users[i] # "None"
              [] r.kind = "create" ->
                    r.data.subreddit # "None" /\ r.data.user # "None"
              [] OTHER -> r.subreddit # "None" /\ r.user # "None"

\* the latest call is a latest-note query whose generator has not raised
OnBulkPath == op.name = "query" /\ error = "none" /\ ~WantsAll

\* C8 (states): while nothing has been pulled out of the generator of a
\* bulk-path query that is still open or was dropped, no request has been
\* issued; and every request but the latest has had all its results yielded,
\* the output being a prefix of the responses in request order.
C8_State ==
    OnBulkPath =>
        /\ (gen.pc \in {"unstarted", "ready", "closed"} /\ output = << >>)
               => requests = << >>
        /\ requests # << >> =>
               LET all == ConcatResponses(requests)
                   last == BulkResponse(server, requests[Len(requests)])
               IN  /\ Len(output) >= Len(all) - Len(last)
                   /\ Len(output) <= Len(all)
                   /\ output = SubSeq(all, 1, Len(output))
        /\ Len(requests) <= (NPairs + 499) \div 500

\* C8 (steps): within one query the log of requests grows only in a step in
\* which the consumer advances the generator, and never once the consumer
\* has dropped it; on the bulk path the requests such a step adds come after
\* those already issued, the k-th request being the one for chunk k.
C8_Step ==
    (op' = op /\ op.name = "query" /\ requests' # requests) =>
        /\ gen.pc \in {"unstarted", "ready"}
        /\ gen'.pc \in {"ready", "done"}
        /\ (output' # output \/ gen'.pc = "done")
        /\ (error' = "none" /\ ~WantsAll) =>
               /\ Len(requests') > Len(requests)
               /\ SubSeq(requests', 1, Len(requests)) = requests
               /\ \A k \in Len(requests) + 1 .. Len(requests') :
                      CarriesChunk(requests'[k], k)

\* C8: a bulk-path query issues no request until the consumer first advances
\* the sequence, issues the request for chunk k + 1 only after every result
\* of chunk k has been yielded, in chunk order, and issues none once the
\* consumer has stopped advancing.
C8_LazySequential == [](C8_State) /\ [][C8_Step]_vars

\* the second request has just been issued, by the advance that followed the
\* 500th result of the first chunk
C8_Witness ==
    /\ OnBulkPath
    /\ gen.pc = "ready"
    /\ NPairs = 1001
    /\ Len(requests) = 2
    /\ Len(output) = 501

====
